---------------------------- MODULE Spec2Model ----------------------------
(***************************************************************************)
(* A model of opm.py: the orientation-preference-map generator (make_opm), *)
(* the two plotting routines, the pixel index table (get_indices) and the  *)
(* least-squares map estimator (calculate_map).                            *)
(*                                                                         *)
(* Every function of the file is a small step machine: pc names the source *)
(* line about to run, args holds the call's arguments, loc the function's  *)
(* local variables under their source names, ret what the call returned or *)
(* raised.  rng is numpy's process-wide random source and figs the figures *)
(* pyplot has created: the only state that outlives a call.  hist records  *)
(* the last two calls of make_opm (arguments, random source before and     *)
(* after, outcome) and caller how many calls were made.                    *)
(*                                                                         *)
(* Arrays are records [shape, at] with 0-based index functions, so that    *)
(* A.at[i][j] reads as A[i][j] does in the source.  Floating-point numbers *)
(* are modelled exactly: integers, reduced fractions <<num, den>> for the  *)
(* least-squares coefficients, fixed-point integers for the filtered noise.*)
(***************************************************************************)
EXTENDS Integers, Sequences, FiniteSets, TLC

VARIABLES fn, pc, args, loc, ret, rng, figs, hist, caller

vars == <<fn, pc, args, loc, ret, rng, figs, hist, caller>>

(***************************************************************************)
(* Bounds of the model.                                                    *)
(***************************************************************************)
\* the largest grid side handed to get_indices and make_opm
MaxSide == 3
\* the largest number n of response columns handed to calculate_map
MaxUnits == 4
\* the largest number d of stimulus columns
MaxDim == 2
\* the largest number N of observations (rows of stimuli and responses)
MaxObs == 2
\* the number of make_opm calls a behaviour makes
MaxCalls == 2
\* the largest number of pixels of a map handed to a plotting routine
MaxPlotCells == 2

(***************************************************************************)
(* Python values.                                                          *)
(***************************************************************************)
None == [kind |-> "None"]
IntSize(s) == [kind |-> "int", v |-> s]
PairSize(x, y) == [kind |-> "pair", v |-> <<x, y>>]

NoReturn == [kind |-> "none"]
Value(v) == [kind |-> "value", val |-> v]
\* an exception, with the line that raised it
Raise(e, line) == [kind |-> "raise", exc |-> e, at |-> line]

Unbound == [kind |-> "unbound"]

Max(p, q) == IF p >= q THEN p ELSE q
Abs(p) == IF p >= 0 THEN p ELSE -p

\* isinstance(size, int) ... sx, sy = size, size ... else sx, sy = size
UnpackSize(size) == IF size.kind = "int" THEN <<size.v, size.v>> ELSE size.v

(***************************************************************************)
(* numpy arrays.                                                           *)
(***************************************************************************)
\* np.arange(nn): the integers 0 .. nn-1, empty when nn <= 0
Arange(nn) == [shape |-> <<Max(nn, 0)>>, at |-> [j \in 0 .. nn - 1 |-> j]]

\* the indices of an axis of length len
Idx(len) == 0 .. len - 1

\* a 2-D array of the given shape from its entries f[p, q]
Array2(r, c, f) ==
    [shape |-> <<r, c>>, at |-> [p \in Idx(r) |-> [q \in Idx(c) |-> f[p, q]]]]

\* A.flatten() of a 2-D array: row-major (C) order
Flatten(A) ==
    LET r == A.shape[1]
        c == A.shape[2]
    IN  [shape |-> <<r * c>>, at |-> [p \in 0 .. r * c - 1 |-> A.at[p \div c][p % c]]]

\* a meshgrid whose second output repeats the first axis again
MeshgridSameAxis(xs, ys) ==
    LET r == ys.shape[1]
        c == xs.shape[1]
    IN  <<Array2(r, c, [p \in Idx(r), q \in Idx(c) |-> xs.at[q]]),
          Array2(r, c, [p \in Idx(r), q \in Idx(c) |-> xs.at[q]])>>

\* np.meshgrid(xs, ys) with the default indexing='xy': two arrays of shape
\* (len(ys), len(xs)); X repeats xs along every row, Y repeats ys along
\* every column
Meshgrid(xs, ys) ==
    LET r == ys.shape[1]
        c == xs.shape[1]
    IN  <<Array2(r, c, [p \in Idx(r), q \in Idx(c) |-> xs.at[q]]),
          Array2(r, c, [p \in Idx(r), q \in Idx(c) |-> ys.at[p]])>>

\* np.vstack((u, v)).T of two 1-D arrays of equal length: one row per
\* position, holding u's entry then v's
VstackT(u, v) ==
    LET len == u.shape[1]
    IN  [shape |-> <<len, 2>>,
         at |-> [p \in 0 .. len - 1 |-> [q \in 0 .. 1 |-> IF q = 0 THEN u.at[p] ELSE v.at[p]]]]

\* get_indices as a function of its argument (lines 118-126)
GetIndices(size) ==
    LET s == UnpackSize(size)
        XY == Meshgrid(Arange(s[1]), Arange(s[2]))
    IN  VstackT(Flatten(XY[1]), Flatten(XY[2]))

(***************************************************************************)
(* get_indices, step by step.                                              *)
(***************************************************************************)
Sides == -1 .. MaxSide

GridSizes == {IntSize(s) : s \in Sides} \cup {PairSize(x, y) : x \in Sides, y \in Sides}

\* no call of make_opm made, the random source not reseeded
NoCaller == [ncalls |-> 0, reseeded |-> FALSE]

InitIndices ==
    /\ fn = "get_indices"
    /\ pc = "L118"
    /\ args \in {[size |-> s] : s \in GridSizes}
    /\ loc = [sx |-> Unbound, sy |-> Unbound, X |-> Unbound, Y |-> Unbound,
              indices |-> Unbound]
    /\ ret = NoReturn
    /\ rng = [seed |-> 0, pos |-> 0]
    /\ figs = <<>>
    /\ hist = <<>>
    /\ caller = NoCaller

GetIndices_ParseSize ==
    /\ fn = "get_indices" /\ pc = "L118"
    /\ loc' = [loc EXCEPT !.sx = UnpackSize(args.size)[1], !.sy = UnpackSize(args.size)[2]]
    /\ pc' = "L123"
    /\ UNCHANGED <<fn, args, ret, rng, figs, hist, caller>>

GetIndices_Meshgrid ==
    /\ fn = "get_indices" /\ pc = "L123"
    /\ LET XY == Meshgrid(Arange(loc.sx), Arange(loc.sy))
       IN  loc' = [loc EXCEPT !.X = XY[1], !.Y = XY[2]]
    /\ pc' = "L124"
    /\ UNCHANGED <<fn, args, ret, rng, figs, hist, caller>>

GetIndices_Stack ==
    /\ fn = "get_indices" /\ pc = "L124"
    /\ loc' = [loc EXCEPT !.indices = VstackT(Flatten(loc.X), Flatten(loc.Y))]
    /\ pc' = "L126"
    /\ UNCHANGED <<fn, args, ret, rng, figs, hist, caller>>

GetIndices_Return ==
    /\ fn = "get_indices" /\ pc = "L126"
    /\ ret' = Value(loc.indices)
    /\ pc' = "done"
    /\ UNCHANGED <<fn, args, loc, rng, figs, hist, caller>>

NextIndices ==
    \/ GetIndices_ParseSize
    \/ GetIndices_Meshgrid
    \/ GetIndices_Stack
    \/ GetIndices_Return

SpecIndices == InitIndices /\ [][NextIndices]_vars

\* the rows of an index table, as a set of pairs
Rows(T) == {<<T.at[p][0], T.at[p][1]>> : p \in 0 .. T.shape[1] - 1}

IndicesReturned == fn = "get_indices" /\ pc = "done" /\ ret.kind = "value"

PositiveSize == loc.sx >= 1 /\ loc.sy >= 1

\* C1: for a size of positive sides (an integer s or a pair), get_indices
\* returns sx*sy rows of two integers, no two rows equal, whose set is
\* exactly {(x, y) : 0 <= x < sx, 0 <= y < sy}.
C1_IndicesCoverGrid ==
    (IndicesReturned /\ PositiveSize) =>
        /\ ret.val.shape = <<loc.sx * loc.sy, 2>>
        /\ \A p, q \in 0 .. ret.val.shape[1] - 1 :
              ret.val.at[p] = ret.val.at[q] => p = q
        /\ Rows(ret.val) = (0 .. loc.sx - 1) \X (0 .. loc.sy - 1)
        /\ (args.size.kind = "int" => loc.sx = args.size.v /\ loc.sy = args.size.v)
        /\ (args.size.kind = "pair" => <<loc.sx, loc.sy>> = args.size.v)

\* the table of a 2 x 3 grid has been returned
C1_Witness ==
    /\ IndicesReturned
    /\ args.size = PairSize(2, 3)
    /\ ret.val.shape = <<6, 2>>

(***************************************************************************)
(* Exact numbers for the least-squares estimate: a reduced fraction        *)
(* <<num, den>> with den > 0; den = 0 stands for the inf/nan a division by *)
(* zero leaves in a float.                                                 *)
(***************************************************************************)
RECURSIVE GCD(_, _)
GCD(p, q) == IF q = 0 THEN p ELSE GCD(q, p % q)

Rat(num, den) ==
    IF den = 0 THEN <<num, 0>>
    ELSE LET g == GCD(Abs(num), Abs(den))
             s == IF den < 0 THEN -1 ELSE 1
         IN  <<(s * num) \div g, (s * den) \div g>>

RatOf(v) == <<v, 1>>
RatZero == <<0, 1>>
RatAdd(p, q) == Rat(p[1] * q[2] + q[1] * p[2], p[2] * q[2])
RatMul(p, q) == Rat(p[1] * q[1], p[2] * q[2])
RatDiv(p, q) == Rat(p[1] * q[2], p[2] * q[1])
RatNeg(p) == <<-p[1], p[2]>>

\* the sum of u[c] * v[c] over c < len
RECURSIVE RatDot(_, _, _)
RatDot(u, v, len) ==
    IF len = 0 THEN RatZero
    ELSE RatAdd(RatDot(u, v, len - 1), RatMul(u[len - 1], v[len - 1]))

\* A.T of a 2-D array
Transpose(A) ==
    Array2(A.shape[2], A.shape[1], [p \in Idx(A.shape[2]), q \in Idx(A.shape[1]) |-> A.at[q][p]])

\* A @ B of two 2-D arrays whose inner dimensions agree
MatMul(A, B) ==
    LET m == A.shape[2]
    IN  Array2(A.shape[1], B.shape[2],
               [p \in Idx(A.shape[1]), q \in Idx(B.shape[2]) |->
                   RatDot([c \in Idx(m) |-> A.at[p][c]], [c \in Idx(m) |-> B.at[c][q]], m)])

\* the entry function of a square matrix without row p and column q
Minor(at, len, p, q) ==
    [u \in 0 .. len - 2 |-> [v \in 0 .. len - 2 |->
        at[IF u < p THEN u ELSE u + 1][IF v < q THEN v ELSE v + 1]]]

\* the determinant of the len x len matrix with entry function at, by
\* expansion along the first row
RECURSIVE Det(_, _)
RECURSIVE DetTerms(_, _, _)
DetTerms(at, len, upto) ==
    IF upto = 0 THEN RatZero
    ELSE LET q == upto - 1
             term == RatMul(at[0][q], Det(Minor(at, len, 0, q), len - 1))
         IN  RatAdd(DetTerms(at, len, q), IF q % 2 = 0 THEN term ELSE RatNeg(term))
Det(at, len) == IF len = 0 THEN RatOf(1) ELSE DetTerms(at, len, len)

Cofactor(at, len, p, q) ==
    LET c == Det(Minor(at, len, p, q), len - 1)
    IN  IF (p + q) % 2 = 0 THEN c ELSE RatNeg(c)

\* a test of singularity that looks at the leading entry alone
IsSingularLeadingEntry(G) == G.at[0][0][1] = 0

\* np.linalg.inv raises LinAlgError("Singular matrix") when the
\* factorisation meets a zero pivot: over exact numbers, a zero determinant
IsSingular(G) == Det(G.at, G.shape[1])[1] = 0

\* the adjugate alone, the division by the determinant forgotten
InvUnscaled(G) ==
    LET len == G.shape[1]
    IN  Array2(len, len, [p \in Idx(len), q \in Idx(len) |-> Cofactor(G.at, len, q, p)])

\* np.linalg.inv(G) of a square matrix
Inv(G) ==
    LET len == G.shape[1]
        det == Det(G.at, len)
    IN  Array2(len, len,
               [p \in Idx(len), q \in Idx(len) |-> RatDiv(Cofactor(G.at, len, q, p), det)])

\* int(np.round(np.sqrt(n))): the integer nearest to the square root
RoundSqrt(n) ==
    LET r == CHOOSE c \in 0 .. n : c * c <= n /\ (c + 1) * (c + 1) > n
    IN  IF n - r * r > r THEN r + 1 ELSE r

\* np.zeros(shape) refuses a negative dimension
ZerosRaises(d, sx, sy) == d < 0 \/ sx < 0 \/ sy < 0

\* np.zeros((d, sx, sy))
Zeros(d, sx, sy) ==
    [shape |-> <<d, sx, sy>>,
     at |-> [p \in 0 .. d - 1 |-> [x \in 0 .. sx - 1 |-> [y \in 0 .. sy - 1 |-> RatZero]]]]

\* a reshape that accepts any shape holding no more cells than the row has
ReshapeShapeTruncating(len, sx, sy) ==
    IF sx >= 0 /\ sy >= 0 /\ sx * sy <= len THEN <<sx, sy>> ELSE <<>>

\* the shape a.reshape(sx, sy) gives a row of len entries, <<>> when numpy
\* raises ValueError: the cells must number len; a single -1 is inferred
ReshapeShape(len, sx, sy) ==
    CASE sx >= 0 /\ sy >= 0 -> IF sx * sy = len THEN <<sx, sy>> ELSE <<>>
      [] sx = -1 /\ sy > 0 -> IF len % sy = 0 THEN <<len \div sy, sy>> ELSE <<>>
      [] sy = -1 /\ sx > 0 -> IF len % sx = 0 THEN <<sx, len \div sx>> ELSE <<>>
      [] OTHER -> <<>>

\* a reshape that fills the grid column by column (Fortran order)
ReshapeColumnMajor(a, shp) ==
    Array2(shp[1], shp[2], [x \in Idx(shp[1]), y \in Idx(shp[2]) |-> a[y * shp[1] + x]])

\* a.reshape(shp) of a row a (an entry function) in row-major (C) order
Reshape(a, shp) ==
    Array2(shp[1], shp[2], [x \in Idx(shp[1]), y \in Idx(shp[2]) |-> a[x * shp[2] + y]])

(***************************************************************************)
(* calculate_map, step by step.                                            *)
(***************************************************************************)
\* the values a stimulus entry takes
StimVals == {RatOf(0), RatOf(1)}

\* every N x d design matrix over StimVals
Designs(N, d) ==
    {[shape |-> <<N, d>>, at |-> f] : f \in [0 .. N - 1 -> [0 .. d - 1 -> StimVals]]}

\* the design whose observation r shows stimulus dimension r mod d alone
IdentityLike(N, d) ==
    Array2(N, d, [r \in Idx(N), c \in Idx(d) |-> RatOf(IF r % d = c THEN 1 ELSE 0)])

\* the values a true map component takes in the noiseless experiments
TrueVals == 0 .. 2

\* true components T_flat (d x n), one per offset
TrueFamily(d, n) ==
    {Array2(d, n, [p \in Idx(d), q \in Idx(n) |-> RatOf((b + p + q) % 3)]) : b \in {0, 1}}

\* true components whose d*n entries are all different
Labelled(d, n) == Array2(d, n, [p \in Idx(d), q \in Idx(n) |-> RatOf(p * n + q + 1)])

\* A with e added to its last row's first entry (measurement noise)
Perturb(A, e) ==
    [A EXCEPT !.at[A.shape[1] - 1][0] = RatAdd(@, RatOf(e))]

\* experiments over every design, with the most response units: noiseless
\* or perturbed responses, every grid of exactly n units
FitArgs ==
    UNION {{[responses |-> Perturb(MatMul(V, T), e), stimuli |-> V, size |-> s] :
               V \in Designs(N, d), T \in TrueFamily(d, MaxUnits), e \in {0, 1},
               s \in {PairSize(x, MaxUnits \div x) : x \in {y \in 1 .. MaxUnits : MaxUnits % y = 0}}} :
           N \in 1 .. MaxObs, d \in 1 .. MaxDim}

SizeSides == -1 .. MaxUnits

\* experiments with an identity-like design over every size
ShapeArgs ==
    {[responses |-> MatMul(IdentityLike(N, d), Labelled(d, n)),
      stimuli |-> IdentityLike(N, d), size |-> s] :
        N \in 1 .. MaxObs, d \in 1 .. MaxDim, n \in 1 .. MaxUnits,
        s \in {None} \cup {PairSize(x, y) : x \in SizeSides, y \in SizeSides}}

InitMap ==
    /\ fn = "calculate_map"
    /\ pc = "L138"
    /\ args \in FitArgs \cup ShapeArgs
    /\ loc = [V |-> Unbound, d |-> Unbound, R |-> Unbound, M_flat |-> Unbound,
              size |-> Unbound, M |-> Unbound, i |-> Unbound]
    /\ ret = NoReturn
    /\ rng = [seed |-> 0, pos |-> 0]
    /\ figs = <<>>
    /\ hist = <<>>
    /\ caller = NoCaller

\* lines 138-140: V = stimuli; d = V.shape[1]; R = responses
CalculateMap_Bind ==
    /\ fn = "calculate_map" /\ pc = "L138"
    /\ loc' = [loc EXCEPT !.V = args.stimuli, !.d = args.stimuli.shape[2],
                          !.R = args.responses, !.size = args.size]
    /\ pc' = "L143"
    /\ UNCHANGED <<fn, args, ret, rng, figs, hist, caller>>

\* line 143: M_flat = np.linalg.inv(V.T @ V) @ V.T @ R
CalculateMap_LeastSquares ==
    /\ fn = "calculate_map" /\ pc = "L143"
    /\ LET G == MatMul(Transpose(loc.V), loc.V)
       IN  IF IsSingular(G)
           THEN /\ ret' = Raise("LinAlgError", "L143")
                /\ pc' = "raised"
                /\ loc' = loc
           ELSE /\ loc' = [loc EXCEPT
                             !.M_flat = MatMul(MatMul(Inv(G), Transpose(loc.V)), loc.R)]
                /\ pc' = "L146"
                /\ ret' = ret
    /\ UNCHANGED <<fn, args, rng, figs, hist, caller>>

\* lines 146-148: if not size: size = int(np.round(np.sqrt(R.shape[1]))) twice
CalculateMap_DefaultSize ==
    /\ fn = "calculate_map" /\ pc = "L146"
    /\ loc' = IF loc.size = None
              THEN [loc EXCEPT !.size = PairSize(RoundSqrt(loc.R.shape[2]),
                                                 RoundSqrt(loc.R.shape[2]))]
              ELSE loc
    /\ pc' = "L151"
    /\ UNCHANGED <<fn, args, ret, rng, figs, hist, caller>>

\* line 151: M = np.zeros((d, *size))
CalculateMap_Zeros ==
    /\ fn = "calculate_map" /\ pc = "L151"
    /\ LET sx == loc.size.v[1]
           sy == loc.size.v[2]
       IN  IF ZerosRaises(loc.d, sx, sy)
           THEN /\ ret' = Raise("ValueError", "L151")
                /\ pc' = "raised"
                /\ loc' = loc
           ELSE /\ loc' = [loc EXCEPT !.M = Zeros(loc.d, sx, sy), !.i = 0]
                /\ pc' = "L152"
                /\ ret' = ret
    /\ UNCHANGED <<fn, args, rng, figs, hist, caller>>

\* lines 152-153: for i, a in enumerate(M_flat): M[i] = a.reshape(*size),
\* one row of M_flat per step
CalculateMap_ReshapeRow ==
    /\ fn = "calculate_map" /\ pc = "L152"
    /\ IF loc.i < loc.M_flat.shape[1]
       THEN LET a == loc.M_flat.at[loc.i]
                shp == ReshapeShape(loc.M_flat.shape[2], loc.size.v[1], loc.size.v[2])
            IN  IF shp = <<>>
                THEN /\ ret' = Raise("ValueError", "L153")
                     /\ pc' = "raised"
                     /\ loc' = loc
                ELSE /\ loc' = [loc EXCEPT !.M.at[loc.i] = Reshape(a, shp).at,
                                           !.i = loc.i + 1]
                     /\ pc' = "L152"
                     /\ ret' = ret
       ELSE /\ pc' = "L155"
            /\ UNCHANGED <<loc, ret>>
    /\ UNCHANGED <<fn, args, rng, figs, hist, caller>>

\* line 155: return M
CalculateMap_Return ==
    /\ fn = "calculate_map" /\ pc = "L155"
    /\ ret' = Value(loc.M)
    /\ pc' = "done"
    /\ UNCHANGED <<fn, args, loc, rng, figs, hist, caller>>

NextMap ==
    \/ CalculateMap_Bind
    \/ CalculateMap_LeastSquares
    \/ CalculateMap_DefaultSize
    \/ CalculateMap_Zeros
    \/ CalculateMap_ReshapeRow
    \/ CalculateMap_Return

SpecMap == InitMap /\ [][NextMap]_vars

(***************************************************************************)
(* Properties of calculate_map.                                            *)
(***************************************************************************)
MapEnded == fn = "calculate_map" /\ pc \in {"done", "raised"}
MapReturned == fn = "calculate_map" /\ pc = "done" /\ ret.kind = "value"

\* n, the number of response columns, and d, the number of stimulus columns
NUnits == args.responses.shape[2]
NDims == args.stimuli.shape[2]
NObs == args.stimuli.shape[1]

PerfectSquare(n) == \E r \in 0 .. n : r * r = n

\* the columns of the stimuli are linearly dependent: some combination of
\* them with coefficients -1, 0, 1, not all 0, vanishes in every row (for
\* entries 0 and 1 and at most three columns, every dependency is one)
RankDeficient ==
    \E c \in [0 .. NDims - 1 -> -1 .. 1] :
        /\ \E q \in 0 .. NDims - 1 : c[q] # 0
        /\ \A r \in 0 .. NObs - 1 :
              RatDot(args.stimuli.at[r], [q \in 0 .. NDims - 1 |-> RatOf(c[q])], NDims)
                  = RatZero

DuplicatedColumn ==
    \E p, q \in 0 .. NDims - 1 :
        p # q /\ \A r \in 0 .. NObs - 1 : args.stimuli.at[r][p] = args.stimuli.at[r][q]

\* the grid the call does not hold n cells in
SizeMismatch ==
    \/ args.size = None /\ ~PerfectSquare(NUnits)
    \/ args.size.kind = "pair" /\ args.size.v[1] * args.size.v[2] # NUnits

\* C2: the k-th row (x, y) of get_indices((sx, sy)) names the grid position
\* [x][y] at which calculate_map with that size stores flat position k of
\* every coefficient row.
C2_IndexOrderMatchesReshape ==
    (MapReturned /\ ret.val.shape[2] >= 1 /\ ret.val.shape[3] >= 1) =>
        LET sx == ret.val.shape[2]
            sy == ret.val.shape[3]
            T == GetIndices(PairSize(sx, sy))
        IN  \A p \in 0 .. NDims - 1 : \A k \in 0 .. sx * sy - 1 :
                LET x == T.at[k][0]
                    y == T.at[k][1]
                IN  /\ x \in 0 .. sx - 1
                    /\ y \in 0 .. sy - 1
                    /\ ret.val.at[p][x][y] = loc.M_flat.at[p][k]

\* C3: with an invertible Gram matrix, a call whose size is omitted while n
\* is no perfect square, or whose pair does not multiply to n, ends in a
\* ValueError and returns nothing; and the reshape raises only then.
C3_MismatchRaises ==
    /\ (fn = "calculate_map" /\ ret.kind = "value") => ~SizeMismatch
    /\ (MapEnded /\ ~RankDeficient /\ SizeMismatch) =>
           ret.kind = "raise" /\ ret.exc = "ValueError"
    /\ (fn = "calculate_map" /\ ret.kind = "raise" /\ ret.at = "L153") => SizeMismatch

\* the default size has raised for n = 3, at the reshape
C3_Witness ==
    /\ MapEnded /\ ~RankDeficient /\ NDims = 2
    /\ args.size = None /\ NUnits = 3
    /\ ret = Raise("ValueError", "L153")

\* C5: stimuli whose columns are linearly dependent (a duplicated column in
\* particular) end the call in LinAlgError at the inversion: the size is
\* never defaulted, M never allocated, no row reshaped, nothing returned.
C5_SingularRaisesFirst ==
    (fn = "calculate_map" /\ (RankDeficient \/ DuplicatedColumn)) =>
        /\ pc \in {"L138", "L143", "raised"}
        /\ (pc = "raised" => ret = Raise("LinAlgError", "L143"))
        /\ ret.kind # "value"
        /\ loc.M = Unbound /\ loc.M_flat = Unbound

\* a design with a duplicated, non-zero column has raised
C5_Witness ==
    /\ fn = "calculate_map" /\ pc = "raised"
    /\ DuplicatedColumn /\ NObs = 2
    /\ \A r \in 0 .. NObs - 1 : args.stimuli.at[r][0] = RatOf(1)
    /\ ret = Raise("LinAlgError", "L143")

\* column j of the responses is the stimuli applied to the coefficients t
Explains(t, j) ==
    \A r \in 0 .. NObs - 1 :
        args.responses.at[r][j]
            = RatDot(args.stimuli.at[r], [q \in 0 .. NDims - 1 |-> RatOf(t[q])], NDims)

TrueColumns == [0 .. NDims - 1 -> TrueVals]

\* the responses are V @ T_flat for some true components T
Noiseless == \A j \in 0 .. NUnits - 1 : \E t \in TrueColumns : Explains(t, j)

\* the call names a grid of n cells
SizeFits ==
    /\ args.size.kind = "pair"
    /\ args.size.v[1] >= 0 /\ args.size.v[2] >= 0
    /\ args.size.v[1] * args.size.v[2] = NUnits

\* C6: for stimuli of full column rank and responses V @ T_flat, the call
\* with a size (sx, sy) of n cells returns T: every entry [i][x][y] is the
\* coefficient i of the column x*sy + y of T_flat.
C6_RoundTrip ==
    (MapEnded /\ ~RankDeficient /\ Noiseless /\ SizeFits) =>
        /\ ret.kind = "value"
        /\ ret.val.shape = <<NDims, args.size.v[1], args.size.v[2]>>
        /\ \A j \in 0 .. NUnits - 1 : \A t \in TrueColumns :
              Explains(t, j) =>
                  \A p \in 0 .. NDims - 1 :
                      ret.val.at[p][j \div args.size.v[2]][j % args.size.v[2]] = RatOf(t[p])

\* two components over a grid of two rows have been recovered from two observations
\* of a design that is not the identity
C6_Witness ==
    /\ MapReturned /\ Noiseless /\ SizeFits
    /\ NDims = 2 /\ NObs = 2 /\ NUnits = MaxUnits /\ args.size.v[1] > 1
    /\ args.stimuli.at[0][0] = RatOf(1) /\ args.stimuli.at[0][1] = RatOf(1)
    /\ ret.val.at[0][1][0] # ret.val.at[1][1][0]

\* C8: a returned array has shape (d, sx, sy), (sx, sy) being the pair given
\* or the square of side sqrt(n); its entry [i][x][y] is M_flat[i][x*sy + y],
\* and M_flat solves the normal equations (V.T V) M_flat = V.T R.
C8_ShapeAndPlacement ==
    MapReturned =>
        LET sx == ret.val.shape[2]
            sy == ret.val.shape[3]
            Vt == Transpose(args.stimuli)
        IN  /\ ret.val.shape[1] = NDims
            /\ args.size.kind = "pair" => <<sx, sy>> = args.size.v
            /\ args.size = None => sx = sy /\ sx * sx = NUnits
            /\ DOMAIN ret.val.at = 0 .. NDims - 1
            /\ \A p \in 0 .. NDims - 1 :
                  /\ DOMAIN ret.val.at[p] = 0 .. sx - 1
                  /\ \A x \in 0 .. sx - 1 :
                        /\ DOMAIN ret.val.at[p][x] = 0 .. sy - 1
                        /\ \A y \in 0 .. sy - 1 :
                              ret.val.at[p][x][y] = loc.M_flat.at[p][x * sy + y]
            /\ loc.M_flat.shape = <<NDims, NUnits>>
            /\ MatMul(MatMul(Vt, args.stimuli), loc.M_flat) = MatMul(Vt, args.responses)

\* two rows of four different coefficients each have been returned as a
\* (2, 2, 2) array under the default size
C8_Witness ==
    /\ MapReturned /\ args.size = None
    /\ ret.val.shape = <<2, 2, 2>>
    /\ ret.val.at[0][0][1] # ret.val.at[0][1][0]
    /\ ret.val.at[1][1][1] # RatZero

(***************************************************************************)
(* make_opm: the random source and the difference-of-Gaussians filter.     *)
(***************************************************************************)
\* the seeds a caller hands to np.random.seed
Seeds == {1, 2}

\* the sample the random source seeded with seed yields at position pos of
\* its stream (a standard normal variate, here an integer in -2 .. 2)
Noise(seed, pos) == ((3 * seed + pos * pos + 2 * pos) % 5) - 2

\* a random source that stays where it is
AdvanceRngNot(state, count) == state

\* the random source after count more samples
AdvanceRng(state, count) == [state EXCEPT !.pos = @ + count]

\* np.random.randn(sx, sy) refuses a negative dimension
RandnRaises(sx, sy) == sx < 0 \/ sy < 0

\* np.random.randn(sx, sy): the next sx*sy samples of the source, in
\* row-major order
Randn(state, sx, sy) ==
    Array2(sx, sy, [x \in Idx(sx), y \in Idx(sy) |-> Noise(state.seed, state.pos + x * sy + y)])

\* the weights of scipy's Gaussian kernel of standard deviation sd at the
\* offsets 0 .. int(4 * sd + 0.5), in thousandths
GaussKernel(sd) ==
    CASE sd = 1 -> <<399, 242, 54, 4, 0>>
      [] sd = 2 -> <<199, 176, 121, 65, 27, 9, 2, 0, 0>>

\* mode='reflect': position i of a line of len entries extended as
\* (d c b a | a b c d | d c b a)
Reflect(i, len) ==
    LET m == i % (2 * len)
    IN  IF m < len THEN m ELSE 2 * len - 1 - m

\* the sum of w[|j|] * line[c + j] over the offsets j .. Len(w) - 1
RECURSIVE TapSum(_, _, _, _, _)
TapSum(line, len, w, c, j) ==
    IF j > Len(w) - 1 THEN 0
    ELSE w[Abs(j) + 1] * line[Reflect(c + j, len)] + TapSum(line, len, w, c, j + 1)

\* scipy's correlate1d of a 2-D array with a symmetric kernel along an axis
Correlate1d(A, w, axis) ==
    LET sx == A.shape[1]
        sy == A.shape[2]
    IN  Array2(sx, sy,
               [x \in Idx(sx), y \in Idx(sy) |->
                   IF axis = 0
                   THEN TapSum([u \in Idx(sx) |-> A.at[u][y]], sx, w, x, 1 - Len(w))
                   ELSE TapSum(A.at[x], sy, w, y, 1 - Len(w))])

\* filters.gaussian_filter(A, sd): the kernel along axis 0, then along axis 1
\* (values in millionths)
GaussianFilter(A, sd) ==
    Correlate1d(Correlate1d(A, GaussKernel(sd), 0), GaussKernel(sd), 1)

\* alpha * gaussian_filter(A, sigma) - alpha * gaussian_filter(A, k * sigma)
DifferenceOfGaussians(A, sigma, k, alpha) ==
    LET fine == GaussianFilter(A, sigma)
        coarse == GaussianFilter(A, k * sigma)
    IN  Array2(A.shape[1], A.shape[2],
               [x \in Idx(A.shape[1]), y \in Idx(A.shape[2]) |->
                   alpha * fine.at[x][y] - alpha * coarse.at[x][y]])

\* a complex map built from the first grid alone
ComplexOfFirst(a, b) ==
    [dtype |-> "complex", shape |-> a.shape,
     at |-> [x \in Idx(a.shape[1]) |-> [y \in Idx(a.shape[2]) |-> [re |-> a.at[x][y], im |-> a.at[x][y]]]]]

\* a + 1j * b: the complex array of real part a and imaginary part b
Complex(a, b) ==
    [dtype |-> "complex", shape |-> a.shape,
     at |-> [x \in Idx(a.shape[1]) |-> [y \in Idx(a.shape[2]) |-> [re |-> a.at[x][y], im |-> b.at[x][y]]]]]

(***************************************************************************)
(* make_opm, step by step, and its caller.                                 *)
(***************************************************************************)
\* sigma, k and alpha of a call (k * sigma is 1 or 2)
FilterParams ==
    {[sigma |-> 1, k |-> 2, alpha |-> 1], [sigma |-> 2, k |-> 1, alpha |-> 2],
     [sigma |-> 1, k |-> 2, alpha |-> -1]}

OpmArgs ==
    {[size |-> s, sigma |-> f.sigma, k |-> f.k, alpha |-> f.alpha] :
        s \in GridSizes, f \in FilterParams}

\* the calls a caller repeats
RepeatedArgs ==
    {[size |-> s, sigma |-> 1, k |-> 2, alpha |-> 1] :
        s \in {IntSize(2), PairSize(1, 2), IntSize(0), PairSize(2, -1)}}

OpmLocals == [sx |-> Unbound, sy |-> Unbound, a |-> Unbound, b |-> Unbound, m |-> Unbound]

\* the record of a call that has begun
Begun(a, state, reseeded) ==
    [args |-> a, before |-> state, reseeded |-> reseeded, ended |-> FALSE,
     after |-> state, ret |-> NoReturn]

\* the record of the running call once it has ended with outcome r
Ended(h, state, r) ==
    [h EXCEPT ![Len(h)] = [@ EXCEPT !.ended = TRUE, !.after = state, !.ret = r]]

\* one call of make_opm, from any state of the random source a seeded
\* source has reached
InitOpm ==
    /\ fn = "make_opm"
    /\ pc = "L19"
    /\ args \in OpmArgs
    /\ loc = OpmLocals
    /\ ret = NoReturn
    /\ rng \in {[seed |-> s, pos |-> p] : s \in Seeds, p \in {0, 3}}
    /\ figs = <<>>
    /\ hist = <<Begun(args, rng, FALSE)>>
    /\ caller = [ncalls |-> 1, reseeded |-> FALSE]

\* a caller about to make its calls, the random source freshly seeded
InitCalls ==
    /\ fn = "make_opm"
    /\ pc = "idle"
    /\ args = Unbound
    /\ loc = OpmLocals
    /\ ret = NoReturn
    /\ rng \in {[seed |-> s, pos |-> 0] : s \in Seeds}
    /\ figs = <<>>
    /\ hist = <<>>
    /\ caller = NoCaller

AtRest == fn = "make_opm" /\ pc \in {"idle", "done", "raised"}

\* the caller seeds the random source: np.random.seed(s)
Caller_Seed ==
    /\ AtRest
    /\ \E s \in Seeds : rng' = [seed |-> s, pos |-> 0]
    /\ caller' = [caller EXCEPT !.reseeded = TRUE]
    /\ UNCHANGED <<fn, pc, args, loc, ret, figs, hist>>

\* the caller calls make_opm(size, sigma, k, alpha)
Caller_MakeOpm ==
    /\ AtRest
    /\ caller.ncalls < MaxCalls
    /\ \E a \in RepeatedArgs :
          /\ args' = a
          /\ hist' = IF hist = <<>> THEN <<Begun(a, rng, caller.reseeded)>>
                     ELSE <<hist[Len(hist)], Begun(a, rng, caller.reseeded)>>
    /\ pc' = "L19"
    /\ loc' = OpmLocals
    /\ ret' = NoReturn
    /\ caller' = [ncalls |-> caller.ncalls + 1, reseeded |-> FALSE]
    /\ UNCHANGED <<fn, rng, figs>>

\* lines 19-22: sx, sy = size, size, or sx, sy = size
MakeOpm_ParseSize ==
    /\ fn = "make_opm" /\ pc = "L19"
    /\ loc' = [loc EXCEPT !.sx = UnpackSize(args.size)[1], !.sy = UnpackSize(args.size)[2]]
    /\ pc' = "L25"
    /\ UNCHANGED <<fn, args, ret, rng, figs, hist, caller>>

\* line 25: a = np.random.randn(sx, sy)
MakeOpm_DrawA ==
    /\ fn = "make_opm" /\ pc = "L25"
    /\ IF RandnRaises(loc.sx, loc.sy)
       THEN /\ ret' = Raise("ValueError", "L25")
            /\ pc' = "raised"
            /\ hist' = Ended(hist, rng, Raise("ValueError", "L25"))
            /\ UNCHANGED <<loc, rng>>
       ELSE /\ loc' = [loc EXCEPT !.a = Randn(rng, loc.sx, loc.sy)]
            /\ rng' = AdvanceRng(rng, loc.sx * loc.sy)
            /\ pc' = "L26"
            /\ UNCHANGED <<ret, hist>>
    /\ UNCHANGED <<fn, args, figs, caller>>

\* line 26: b = np.random.randn(sx, sy)
MakeOpm_DrawB ==
    /\ fn = "make_opm" /\ pc = "L26"
    /\ loc' = [loc EXCEPT !.b = Randn(rng, loc.sx, loc.sy)]
    /\ rng' = AdvanceRng(rng, loc.sx * loc.sy)
    /\ pc' = "L29"
    /\ UNCHANGED <<fn, args, ret, figs, hist, caller>>

\* line 29: a = alpha * gaussian_filter(a, sigma) - alpha * gaussian_filter(a, k * sigma)
MakeOpm_FilterA ==
    /\ fn = "make_opm" /\ pc = "L29"
    /\ loc' = [loc EXCEPT !.a = DifferenceOfGaussians(loc.a, args.sigma, args.k, args.alpha)]
    /\ pc' = "L30"
    /\ UNCHANGED <<fn, args, ret, rng, figs, hist, caller>>

\* line 30: b = alpha * gaussian_filter(b, sigma) - alpha * gaussian_filter(b, k * sigma)
MakeOpm_FilterB ==
    /\ fn = "make_opm" /\ pc = "L30"
    /\ loc' = [loc EXCEPT !.b = DifferenceOfGaussians(loc.b, args.sigma, args.k, args.alpha)]
    /\ pc' = "L33"
    /\ UNCHANGED <<fn, args, ret, rng, figs, hist, caller>>

\* line 33: m = a + 1j * b
MakeOpm_Combine ==
    /\ fn = "make_opm" /\ pc = "L33"
    /\ loc' = [loc EXCEPT !.m = Complex(loc.a, loc.b)]
    /\ pc' = "L35"
    /\ UNCHANGED <<fn, args, ret, rng, figs, hist, caller>>

\* line 35: return m
MakeOpm_Return ==
    /\ fn = "make_opm" /\ pc = "L35"
    /\ ret' = Value(loc.m)
    /\ pc' = "done"
    /\ hist' = Ended(hist, rng, Value(loc.m))
    /\ UNCHANGED <<fn, args, loc, rng, figs, caller>>

MakeOpm_Step ==
    \/ MakeOpm_ParseSize
    \/ MakeOpm_DrawA
    \/ MakeOpm_DrawB
    \/ MakeOpm_FilterA
    \/ MakeOpm_FilterB
    \/ MakeOpm_Combine
    \/ MakeOpm_Return

NextOpm == MakeOpm_Step

NextCalls ==
    \/ Caller_Seed
    \/ Caller_MakeOpm
    \/ MakeOpm_Step

SpecOpm == InitOpm /\ [][NextOpm]_vars

SpecCalls == InitCalls /\ [][NextCalls]_vars

(***************************************************************************)
(* Properties of make_opm.                                                 *)
(***************************************************************************)
OpmEnded == fn = "make_opm" /\ pc \in {"done", "raised"}

\* the sides the call's size names
SizeX(a) == UnpackSize(a.size)[1]
SizeY(a) == UnpackSize(a.size)[2]

\* the grid of sx x sy consecutive samples of a source's stream from
\* position pos on, row by row
StreamGrid(state, pos, sx, sy) ==
    Array2(sx, sy, [x \in Idx(sx), y \in Idx(sy) |-> Noise(state.seed, pos + x * sy + y)])

\* C4: make_opm raises, and returns no grid, whenever a side of its size is
\* zero or negative.
C4_NonPositiveSizeRaises ==
    (OpmEnded /\ (SizeX(args) <= 0 \/ SizeY(args) <= 0)) => ret.kind = "raise"

\* C7: for a size of positive sides (an integer or a pair), make_opm returns
\* a complex grid of shape (sx, sy) whose real parts are the filtered first
\* sx*sy samples and whose imaginary parts are the filtered next sx*sy.
C7_ComplexGridOfShape ==
    (OpmEnded /\ SizeX(args) >= 1 /\ SizeY(args) >= 1) =>
        LET sx == SizeX(args)
            sy == SizeY(args)
            before == hist[Len(hist)].before
            first == StreamGrid(before, before.pos, sx, sy)
            second == StreamGrid(before, before.pos + sx * sy, sx, sy)
            re == DifferenceOfGaussians(first, args.sigma, args.k, args.alpha)
            im == DifferenceOfGaussians(second, args.sigma, args.k, args.alpha)
        IN  /\ ret.kind = "value"
            /\ ret.val.dtype = "complex"
            /\ ret.val.shape = <<sx, sy>>
            /\ (args.size.kind = "int" => sx = args.size.v /\ sy = args.size.v)
            /\ DOMAIN ret.val.at = Idx(sx)
            /\ \A x \in Idx(sx) :
                  /\ DOMAIN ret.val.at[x] = Idx(sy)
                  /\ \A y \in Idx(sy) : ret.val.at[x][y] = [re |-> re.at[x][y], im |-> im.at[x][y]]

\* a 2 x 3 map with a non-zero entry whose real and imaginary parts differ
\* has been returned
C7_Witness ==
    /\ fn = "make_opm" /\ pc = "done" /\ ret.kind = "value"
    /\ args.size = PairSize(2, 3)
    /\ \E x \in Idx(2), y \in Idx(3) :
          ret.val.at[x][y].re # ret.val.at[x][y].im /\ ret.val.at[x][y].re # 0

\* the call h has returned a grid for a size of positive sides
ReturnedGrid(h) ==
    h.ended /\ h.ret.kind = "value" /\ SizeX(h.args) >= 1 /\ SizeY(h.args) >= 1

\* C9: make_opm is a function of its arguments and the random source: two
\* calls with equal arguments from equal states of the source return equal
\* grids and leave equal states; a returning call draws 2*sx*sy samples, the
\* first sx*sy into the real-part grid and the next into the imaginary-part
\* grid, and touches nothing else; and after a call that returned a grid, a
\* second call made without reseeding starts from another state.
C9_DeterministicInRng ==
    /\ (Len(hist) = 2 /\ hist[1].ended /\ hist[2].ended
            /\ hist[1].args = hist[2].args /\ hist[1].before = hist[2].before) =>
           hist[1].ret = hist[2].ret /\ hist[1].after = hist[2].after
    /\ \A c \in 1 .. Len(hist) :
           /\ (hist[c].ended /\ hist[c].ret.kind = "value") =>
                  hist[c].after =
                      [seed |-> hist[c].before.seed,
                       pos |-> hist[c].before.pos + 2 * SizeX(hist[c].args) * SizeY(hist[c].args)]
           /\ (hist[c].ended /\ hist[c].ret.kind = "raise") => hist[c].after = hist[c].before
    /\ (fn = "make_opm" /\ pc = "L29") =>
           LET before == hist[Len(hist)].before
           IN  /\ loc.a = StreamGrid(before, before.pos, loc.sx, loc.sy)
               /\ loc.b = StreamGrid(before, before.pos + loc.sx * loc.sy, loc.sx, loc.sy)
    /\ figs = <<>>
    /\ (Len(hist) = 2 /\ ~hist[2].reseeded /\ ReturnedGrid(hist[1])) =>
           hist[2].before # hist[1].before

\* a call has been repeated with the same arguments after the source was
\* reseeded to the state the first call began in, and both returned a grid
C9_Witness ==
    /\ Len(hist) = 2
    /\ ReturnedGrid(hist[1]) /\ ReturnedGrid(hist[2])
    /\ hist[1].args = hist[2].args /\ hist[1].before = hist[2].before
    /\ hist[2].reseeded
    /\ hist[1].after.pos = 8

(***************************************************************************)
(* plot_opm and plot_amplitude_map.  A complex entry is [re, im] with      *)
(* parts in -1 .. 1, so that its argument is a multiple of pi/4; a real    *)
(* entry is [pi_8 |-> q], the angle q * pi/8, or [sqrt |-> s], the         *)
(* non-negative root of s.                                                 *)
(***************************************************************************)
ComplexVals == {[re |-> r, im |-> i] : r \in -1 .. 1, i \in -1 .. 1}

RealVals == {[pi_8 |-> -8], [pi_8 |-> 3], [sqrt |-> 4]}

\* the maps of one row handed to a plotting routine
PlotMaps ==
    UNION {{[dtype |-> "complex", shape |-> <<1, w>>, at |-> f] :
                f \in [Idx(1) -> [Idx(w) -> ComplexVals]]}
           \cup {[dtype |-> "float", shape |-> <<1, w>>, at |-> f] :
                f \in [Idx(1) -> [Idx(w) -> RealVals]]} :
           w \in 1 .. MaxPlotCells}

\* a test for the complex type: np.iscomplexobj(m)
IsComplexObj(m) == m.dtype = "complex"

\* np.iscomplex(m).any(): some entry of a complex-typed array has a
\* non-zero imaginary part (np.iscomplex is false for every real-typed entry)
IsComplexAny(m) ==
    /\ m.dtype = "complex"
    /\ \E x \in Idx(m.shape[1]), y \in Idx(m.shape[2]) : m.at[x][y].im # 0

\* np.angle(z) in eighths of pi, for z with parts in -1 .. 1: atan2(im, re)
Angle8(z) ==
    CASE z.im = 0 /\ z.re >= 0 -> 0
      [] z.im = 0 /\ z.re < 0 -> 8
      [] z.im > 0 -> (IF z.re > 0 THEN 2 ELSE IF z.re = 0 THEN 4 ELSE 6)
      [] z.im < 0 -> (IF z.re > 0 THEN -2 ELSE IF z.re = 0 THEN -4 ELSE -6)

\* theta = 0.5 * (np.angle(m) + np.pi)
Theta(m) ==
    [dtype |-> "float", shape |-> m.shape,
     at |-> [x \in Idx(m.shape[1]) |-> [y \in Idx(m.shape[2]) |->
                [pi_8 |-> (Angle8(m.at[x][y]) + 8) \div 2]]]]

\* A = np.abs(m)
Modulus(m) ==
    [dtype |-> "float", shape |-> m.shape,
     at |-> [x \in Idx(m.shape[1]) |-> [y \in Idx(m.shape[2]) |->
                [sqrt |-> m.at[x][y].re * m.at[x][y].re + m.at[x][y].im * m.at[x][y].im]]]]

\* plt.subplots(): a new figure with one empty axes
NewFigure ==
    [image |-> Unbound, cmap |-> Unbound, clim |-> Unbound, colorbar |-> FALSE,
     ticks |-> Unbound, ticklabels |-> Unbound, xticks |-> Unbound, yticks |-> Unbound,
     title |-> Unbound]

\* ax.imshow refuses image data it cannot convert to float
ImshowRaises(data) == data.dtype = "complex"

PlotLocals == [theta |-> Unbound, A |-> Unbound, f |-> Unbound]

InitPlot ==
    /\ \/ fn = "plot_opm" /\ pc = "L49"
             /\ args \in {[m |-> m, cmap |-> "hsv", title |-> "Preferred orientation"] :
                              m \in PlotMaps}
       \/ fn = "plot_amplitude_map" /\ pc = "L88"
             /\ args \in {[m |-> m, cmap |-> "jet", title |-> "Amplitude"] : m \in PlotMaps}
    /\ loc = PlotLocals
    /\ ret = NoReturn
    /\ rng = [seed |-> 0, pos |-> 0]
    /\ figs = <<>>
    /\ hist = <<>>
    /\ caller = NoCaller

\* lines 49-54: theta is the rescaled angle if np.iscomplex(m).any(), else m
PlotOpm_Branch ==
    /\ fn = "plot_opm" /\ pc = "L49"
    /\ loc' = [loc EXCEPT !.theta = IF IsComplexAny(args.m) THEN Theta(args.m) ELSE args.m]
    /\ pc' = "L56"
    /\ UNCHANGED <<fn, args, ret, rng, figs, hist, caller>>

\* line 56: f, ax = plt.subplots()
PlotOpm_Subplots ==
    /\ fn = "plot_opm" /\ pc = "L56"
    /\ figs' = Append(figs, NewFigure)
    /\ loc' = [loc EXCEPT !.f = Len(figs) + 1]
    /\ pc' = "L59"
    /\ UNCHANGED <<fn, args, ret, rng, hist, caller>>

\* line 59: im = ax.imshow(theta, cmap=cmap)
PlotOpm_Imshow ==
    /\ fn = "plot_opm" /\ pc = "L59"
    /\ IF ImshowRaises(loc.theta)
       THEN /\ ret' = Raise("TypeError", "L59")
            /\ pc' = "raised"
            /\ figs' = figs
       ELSE /\ figs' = [figs EXCEPT ![loc.f] = [@ EXCEPT !.image = loc.theta, !.cmap = args.cmap]]
            /\ pc' = "L60"
            /\ ret' = ret
    /\ UNCHANGED <<fn, args, loc, rng, hist, caller>>

\* lines 60-71: colour limits 0 .. pi, a colorbar with five ticks from 0 to
\* pi and their labels, no axis ticks, the title
PlotOpm_Decorate ==
    /\ fn = "plot_opm" /\ pc = "L60"
    /\ figs' = [figs EXCEPT ![loc.f] =
                   [@ EXCEPT !.clim = <<[pi_8 |-> 0], [pi_8 |-> 8]>>,
                             !.colorbar = TRUE,
                             !.ticks = [t \in 1 .. 5 |-> [pi_8 |-> 2 * (t - 1)]],
                             !.ticklabels = <<"0", "$\\pi / 4$", "$\\pi / 2$",
                                              "$3 \\pi / 4$", "$\\pi$">>,
                             !.xticks = <<>>, !.yticks = <<>>,
                             !.title = args.title]]
    /\ pc' = "L73"
    /\ UNCHANGED <<fn, args, loc, ret, rng, hist, caller>>

\* line 73: return f, ax
PlotOpm_Return ==
    /\ fn = "plot_opm" /\ pc = "L73"
    /\ ret' = Value(loc.f)
    /\ pc' = "done"
    /\ UNCHANGED <<fn, args, loc, rng, figs, hist, caller>>

\* lines 88-92: A is the modulus if np.iscomplex(m).any(), else m
PlotAmplitude_Branch ==
    /\ fn = "plot_amplitude_map" /\ pc = "L88"
    /\ loc' = [loc EXCEPT !.A = IF IsComplexAny(args.m) THEN Modulus(args.m) ELSE args.m]
    /\ pc' = "L94"
    /\ UNCHANGED <<fn, args, ret, rng, figs, hist, caller>>

\* line 94: f, ax = plt.subplots()
PlotAmplitude_Subplots ==
    /\ fn = "plot_amplitude_map" /\ pc = "L94"
    /\ figs' = Append(figs, NewFigure)
    /\ loc' = [loc EXCEPT !.f = Len(figs) + 1]
    /\ pc' = "L96"
    /\ UNCHANGED <<fn, args, ret, rng, hist, caller>>

\* line 96: im = ax.imshow(A, cmap=cmap)
PlotAmplitude_Imshow ==
    /\ fn = "plot_amplitude_map" /\ pc = "L96"
    /\ IF ImshowRaises(loc.A)
       THEN /\ ret' = Raise("TypeError", "L96")
            /\ pc' = "raised"
            /\ figs' = figs
       ELSE /\ figs' = [figs EXCEPT ![loc.f] = [@ EXCEPT !.image = loc.A, !.cmap = args.cmap]]
            /\ pc' = "L99"
            /\ ret' = ret
    /\ UNCHANGED <<fn, args, loc, rng, hist, caller>>

\* lines 99-104: a colorbar, no axis ticks, the title
PlotAmplitude_Decorate ==
    /\ fn = "plot_amplitude_map" /\ pc = "L99"
    /\ figs' = [figs EXCEPT ![loc.f] =
                   [@ EXCEPT !.colorbar = TRUE, !.xticks = <<>>, !.yticks = <<>>,
                             !.title = args.title]]
    /\ pc' = "L106"
    /\ UNCHANGED <<fn, args, loc, ret, rng, hist, caller>>

\* line 106: return f, ax
PlotAmplitude_Return ==
    /\ fn = "plot_amplitude_map" /\ pc = "L106"
    /\ ret' = Value(loc.f)
    /\ pc' = "done"
    /\ UNCHANGED <<fn, args, loc, rng, figs, hist, caller>>

NextPlot ==
    \/ PlotOpm_Branch
    \/ PlotOpm_Subplots
    \/ PlotOpm_Imshow
    \/ PlotOpm_Decorate
    \/ PlotOpm_Return
    \/ PlotAmplitude_Branch
    \/ PlotAmplitude_Subplots
    \/ PlotAmplitude_Imshow
    \/ PlotAmplitude_Decorate
    \/ PlotAmplitude_Return

SpecPlot == InitPlot /\ [][NextPlot]_vars

(***************************************************************************)
(* Properties of the plotting routines.                                    *)
(***************************************************************************)
PlotEnded == fn \in {"plot_opm", "plot_amplitude_map"} /\ pc \in {"done", "raised"}

\* the array the call handed to imshow and the axes accepted
Displayed == IF pc = "done" THEN figs[loc.f].image ELSE Unbound

\* C10: for a map of complex type, plot_opm displays the rescaled angle
\* 0.5 * (angle(m) + pi), every entry of it within 0 .. pi, and
\* plot_amplitude_map the modulus |m|; the input itself is displayed only
\* when it is of real type.
C10_ComplexTypeIsConverted ==
    PlotEnded =>
        /\ IsComplexObj(args.m) =>
              /\ pc = "done"
              /\ fn = "plot_opm" =>
                    /\ Displayed = Theta(args.m)
                    /\ \A x \in Idx(args.m.shape[1]), y \in Idx(args.m.shape[2]) :
                          Displayed.at[x][y].pi_8 \in 0 .. 8
              /\ fn = "plot_amplitude_map" => Displayed = Modulus(args.m)
        /\ Displayed = args.m => ~IsComplexObj(args.m)

=============================================================================
